---- MODULE Spec2Model ----
(***************************************************************************)
(* Model of weblate_stats.py: the User aggregate (read_from_weblate_stats, *)
(* populate_total_stats, needs_output, the two report conversions), the    *)
(* report writer (write_stats_to_file) and the run of get_weblate_stats.   *)
(*                                                                         *)
(* Python values are modelled as follows.                                  *)
(*   - A dict whose iteration order is observable (User.stats and each     *)
(*     project's version mapping) is a record [keys, vals] of two          *)
(*     sequences of equal length, in insertion order.                      *)
(*   - A dict read only by key (a bucket, a counter set) is a TLA+         *)
(*     function over the strings it holds; an absent key is outside its    *)
(*     DOMAIN.                                                             *)
(*   - A str that shares a list with values of another Python type is      *)
(*     wrapped, [str |-> s]; a project object is [slug |-> s].             *)
(***************************************************************************)
EXTENDS Integers, Sequences, FiniteSets, TLC

VARIABLES
    \* one User, any sequence of its operations
    user_id,   \* User.user_id
    lang,      \* User.lang
    stats,     \* User.stats
    call,      \* the last operation applied to the User, with its arguments
    old,       \* User.stats before that operation
    ret,       \* what that operation returned
    nrecords,  \* raw records handed to read_from_weblate_stats so far
    \* one run of main()
    pc,              \* the statement of main() that runs next, or how it ended
    options,         \* the parsed command line
    team_yaml,       \* the content of the team file
    weblate,         \* what the remote API holds
    language_teams,  \* main's language_teams
    users,           \* main's users
    requests,        \* the URIs read from the remote API so far
    folded,          \* the users read_from_weblate_stats was called on
    written,         \* the users written to the output file, in order
    output           \* the output file

uvars == <<user_id, lang, stats, call, old, ret, nrecords>>
rvars == <<pc, options, team_yaml, weblate, language_teams, users, requests,
           folded, written, output>>
vars == <<user_id, lang, stats, call, old, ret, nrecords, pc, options, team_yaml,
          weblate, language_teams, users, requests, folded, written, output>>

-----------------------------------------------------------------------------
(* Bounds and input domains *)

MaxRecords == 2

ProjectSlugs == {"i18n", "nova"}
VersionSlugs == {"master", "stable-zed"}
LocaleIds == {"ko", "ja"}
SavedStates == {"Translated", "NeedReview", "Approved", "Rejected", "total", "Fuzzy"}
WordCounts == {20, 100}

\* The raw records of the remote API (the keys read at lines 313-317): every
\* record in the User's language "ko", and one record of another language for
\* each project and version (such a record is dropped before its state and
\* word count are looked at).
WeblateStat ==
    {r \in [projectSlug : ProjectSlugs, versionSlug : VersionSlugs,
            localeId : LocaleIds, savedState : SavedStates, wordCount : WordCounts] :
        r.localeId = "ko" \/ (r.savedState = "Translated" /\ r.wordCount = 20)}

RECURSIVE SeqsUpTo(_, _)
SeqsUpTo(S, n) ==
    IF n = 0 THEN {<<>>}
    ELSE LET shorter == SeqsUpTo(S, n - 1)
         IN shorter \cup {Append(s, x) : s \in {t \in shorter : Len(t) = n - 1}, x \in S}

PyStr(s) == [str |-> s]

ProjectLists == {<<>>, <<PyStr("i18n")>>}
VersionLists == {<<>>, <<"master">>}

-----------------------------------------------------------------------------
(* Python dict operations *)

EmptyDict == [keys |-> <<>>, vals |-> <<>>]

HasKey(d, k) == \E i \in 1..Len(d.keys) : d.keys[i] = k

IndexOf(d, k) == CHOOSE i \in 1..Len(d.keys) : d.keys[i] = k

DictGet(d, k) == d.vals[IndexOf(d, k)]

DictSet(d, k, v) ==
    IF HasKey(d, k)
    THEN [d EXCEPT !.vals[IndexOf(d, k)] = v]
    ELSE [keys |-> Append(d.keys, k), vals |-> Append(d.vals, v)]

\* d[k] of a collections.defaultdict(dict), read only: the entry or a new {}.
DefaultGet(d, k) == IF HasKey(d, k) THEN DictGet(d, k) ELSE EmptyDict

\* bool(d)
Truthy(d) == Len(d.keys) > 0

EmptyCounter == [k \in {} |-> 0]

\* c.get(k, default) of a dict read by key
Get(c, k, default) == IF k \in DOMAIN c THEN c[k] ELSE default

\* c[k] += n of a collections.defaultdict(int)
AddTo(c, k, n) ==
    IF k \in DOMAIN c THEN [c EXCEPT ![k] = @ + n] ELSE c @@ (k :> n)

\* x in list
In(x, list) == \E i \in 1..Len(list) : list[i] = x

-----------------------------------------------------------------------------
(* class User *)

trans_fields == <<"total", "Translated", "NeedReview", "Approved", "Rejected">>
review_fields == <<"total", "Approved", "Rejected">>

TOTAL == "__total__"
TRANS == "translation-stats"
REVIEW == "review-stats"

NewVersion == (TRANS :> EmptyCounter) @@ (REVIEW :> EmptyCounter)

\* The version check is made only when no project filter is given.
Skip_VersionElif(user_lang, weblate_stat, project_list, version_list) ==
    LET project_id == weblate_stat.projectSlug
        version == weblate_stat.versionSlug
    IN  \/ Len(project_list) > 0 /\ ~In(PyStr(project_id), project_list)
        \/ Len(project_list) = 0 /\ Len(version_list) > 0
             /\ ~In(version, version_list)
        \/ user_lang # weblate_stat.localeId

\* The three `continue` checks of the loop of read_from_weblate_stats.
Skip(user_lang, weblate_stat, project_list, version_list) ==
    LET project_id == weblate_stat.projectSlug
        version == weblate_stat.versionSlug
    IN  \/ Len(project_list) > 0 /\ ~In(PyStr(project_id), project_list)
        \/ Len(version_list) > 0 /\ ~In(version, version_list)
        \/ user_lang # weblate_stat.localeId

\* The review counters are touched only when the translation ones were not.
Accumulate_ReviewElif(my_version, stat_state, word_count) ==
    IF In(stat_state, trans_fields)
    THEN [my_version EXCEPT
             ![TRANS] = AddTo(AddTo(@, stat_state, word_count), "total", word_count)]
    ELSE IF In(stat_state, review_fields)
    THEN [my_version EXCEPT
             ![REVIEW] = AddTo(AddTo(@, stat_state, word_count), "total", word_count)]
    ELSE my_version

\* The two membership tests that add a record's word count to its bucket.
Accumulate(my_version, stat_state, word_count) ==
    LET after_trans ==
            IF In(stat_state, trans_fields)
            THEN [my_version EXCEPT
                     ![TRANS] = AddTo(AddTo(@, stat_state, word_count),
                                      "total", word_count)]
            ELSE my_version
    IN  IF In(stat_state, review_fields)
        THEN [after_trans EXCEPT
                 ![REVIEW] = AddTo(AddTo(@, stat_state, word_count),
                                   "total", word_count)]
        ELSE after_trans

\* What the loop does with a record it does not skip.
Update(st, weblate_stat) ==
    LET project_id == weblate_stat.projectSlug
        version == weblate_stat.versionSlug
        my_project == DefaultGet(st, project_id)
        with_version == IF HasKey(my_project, version) THEN my_project
                        ELSE DictSet(my_project, version, NewVersion)
        my_version == DictGet(with_version, version)
    IN  DictSet(st, project_id,
                DictSet(with_version, version,
                        Accumulate(my_version, weblate_stat.savedState,
                                   weblate_stat.wordCount)))

\* self.stats[project_id] is read, and so created, before the checks.
ReadRecord_TouchFirst(st, user_lang, weblate_stat, project_list, version_list) ==
    IF Skip(user_lang, weblate_stat, project_list, version_list)
    THEN DictSet(st, weblate_stat.projectSlug,
                 DefaultGet(st, weblate_stat.projectSlug))
    ELSE Update(st, weblate_stat)

\* The body of the loop of read_from_weblate_stats, for one raw record.
ReadRecord(st, user_lang, weblate_stat, project_list, version_list) ==
    IF Skip(user_lang, weblate_stat, project_list, version_list) THEN st
    ELSE Update(st, weblate_stat)

RECURSIVE read_from_weblate_stats(_, _, _, _, _)
read_from_weblate_stats(st, user_lang, weblate_stats, project_list, version_list) ==
    IF weblate_stats = <<>> THEN st
    ELSE read_from_weblate_stats(
             ReadRecord(st, user_lang, Head(weblate_stats), project_list, version_list),
             user_lang, Tail(weblate_stats), project_list, version_list)

\* The running total is assigned, not added to: the last version wins.
SumVersions_Overwrite(versions, kind, k, n) ==
    IF n = 0 THEN 0
    ELSE Get(Get(versions.vals[n], kind, EmptyCounter), k, 0)

RECURSIVE SumVersions(_, _, _, _)
\* The inner loop of populate_total_stats: field k of the counter set `kind`,
\* summed over the first n entries of one project's version mapping.
SumVersions(versions, kind, k, n) ==
    IF n = 0 THEN 0
    ELSE SumVersions(versions, kind, k, n - 1)
         + Get(Get(versions.vals[n], kind, EmptyCounter), k, 0)

RECURSIVE SumProjects(_, _, _, _)
\* The outer loop of populate_total_stats, over the first n entries of stats.
SumProjects(st, kind, k, n) ==
    IF n = 0 THEN 0
    ELSE SumProjects(st, kind, k, n - 1)
         + SumVersions(st.vals[n], kind, k, Len(st.vals[n].keys))

FieldSet(fields) == {fields[i] : i \in 1..Len(fields)}

\* The totals start from the previous "__total__" entry, not from zero.
Totals_Carry(st, kind, fields) ==
    LET previous == IF HasKey(DefaultGet(st, TOTAL), kind)
                    THEN DictGet(DictGet(st, TOTAL), kind) ELSE EmptyCounter
    IN  [k \in FieldSet(fields) |->
            Get(previous, k, 0) + SumProjects(st, kind, k, Len(st.keys))]

Totals(st, kind, fields) ==
    [k \in FieldSet(fields) |-> 0 + SumProjects(st, kind, k, Len(st.keys))]

populate_total_stats(st) ==
    LET total_trans == Totals(st, TRANS, trans_fields)
        total_review == Totals(st, REVIEW, review_fields)
        with_trans == DictSet(st, TOTAL, DictSet(DefaultGet(st, TOTAL), TRANS, total_trans))
    IN  DictSet(with_trans, TOTAL,
                DictSet(DefaultGet(with_trans, TOTAL), REVIEW, total_review))

needs_output(st, include_no_activities) ==
    IF include_no_activities THEN TRUE
    ELSE Truthy(st) /\ \A i \in 1..Len(st.vals) : Truthy(st.vals[i])

get_flattened_data_title ==
    <<"user_id", "lang", "project", "version", "translation-total", "translated",
      "needReview", "approved", "rejected", "review-total", "review-approved",
      "review-rejected">>

\* [c.get(k, 0) for k in fields]
Cells(c, fields) == [i \in 1..Len(fields) |-> Get(c, fields[i], 0)]

RECURSIVE VersionRows(_, _, _, _, _)
\* The rows appended for the first n versions of one project (detail set).
VersionRows(uid, user_lang, project_id, versions, n) ==
    IF n = 0 THEN <<>>
    ELSE Append(VersionRows(uid, user_lang, project_id, versions, n - 1),
                <<uid, user_lang, project_id, versions.keys[n]>>
                \o Cells(Get(versions.vals[n], TRANS, EmptyCounter), trans_fields)
                \o Cells(Get(versions.vals[n], REVIEW, EmptyCounter), review_fields))

RECURSIVE ProjectRows_NoSkip(_, _, _, _, _)
\* The "__total__" entry is not passed over.
ProjectRows_NoSkip(uid, user_lang, st, detail, n) ==
    IF n = 0 THEN <<>>
    ELSE ProjectRows_NoSkip(uid, user_lang, st, detail, n - 1)
         \o (IF ~detail THEN <<>>
             ELSE VersionRows(uid, user_lang, st.keys[n], st.vals[n],
                              Len(st.vals[n].keys)))

RECURSIVE ProjectRows(_, _, _, _, _)
\* The rows appended by the loop over the first n entries of stats.
ProjectRows(uid, user_lang, st, detail, n) ==
    IF n = 0 THEN <<>>
    ELSE ProjectRows(uid, user_lang, st, detail, n - 1)
         \o (IF st.keys[n] = TOTAL \/ ~detail THEN <<>>
             ELSE VersionRows(uid, user_lang, st.keys[n], st.vals[n],
                              Len(st.vals[n].keys)))

\* Returns the User's stats as the call leaves them and the rows it returns.
convert_to_flattened_data(uid, user_lang, st, detail) ==
    LET populated == populate_total_stats(st)
        total == DictGet(populated, TOTAL)
    IN  [stats |-> populated,
         data |-> Append(ProjectRows(uid, user_lang, populated, detail,
                                     Len(populated.keys)),
                         <<uid, user_lang, "-", "-">>
                         \o [i \in 1..Len(trans_fields) |->
                                DictGet(total, TRANS)[trans_fields[i]]]
                         \o [i \in 1..Len(review_fields) |->
                                DictGet(total, REVIEW)[review_fields[i]]])]

convert_to_serializable_data(uid, user_lang, st, detail) ==
    LET populated == populate_total_stats(st)
    IN  [stats |-> populated,
         data |-> [user_id |-> uid, lang |-> user_lang,
                   stats |-> IF detail THEN populated ELSE DictGet(populated, TOTAL)]]

-------------------------------------------------------------------------------------------------------------------------------------------------
(* Python str: str(), <, replace, and csv.writer's rows *)

Digit(d) == SubSeq("0123456789", d + 1, d + 1)

RECURSIVE Str(_)
\* str(n) of a non-negative int
Str(n) == IF n < 10 THEN Digit(n) ELSE Str(n \div 10) \o Digit(n % 10)

\* The characters of the identifiers used, in code point order.
Chars == "-/0123456789_abcdefghijklmnopqrstuvwxyz"

Ord(c) == CHOOSE i \in 1..Len(Chars) : SubSeq(Chars, i, i) = c

RECURSIVE StrLt(_, _)
\* a < b of two str: by code point, a proper prefix first
StrLt(a, b) ==
    IF Len(b) = 0 THEN FALSE
    ELSE IF Len(a) = 0 THEN TRUE
    ELSE LET x == Ord(SubSeq(a, 1, 1))
             y == Ord(SubSeq(b, 1, 1))
         IN  IF x # y THEN x < y
             ELSE StrLt(SubSeq(a, 2, Len(a)), SubSeq(b, 2, Len(b)))

RECURSIVE ReplaceSlash(_)
\* v.replace("/", "-")
ReplaceSlash(v) ==
    IF Len(v) = 0 THEN ""
    ELSE (IF SubSeq(v, 1, 1) = "/" THEN "-" ELSE SubSeq(v, 1, 1))
         \o ReplaceSlash(SubSeq(v, 2, Len(v)))

RECURSIVE Join(_, _)
\* ",".join of the first n of a sequence of str
Join(cells, n) ==
    IF n = 0 THEN ""
    ELSE IF n = 1 THEN cells[1]
    ELSE Join(cells, n - 1) \o "," \o cells[n]

\* csv.writer writes str(cell) of each cell; the first four cells of a data
\* row are str already, the others are int.  No cell of the model holds a
\* character that csv would quote.
writerow(row) ==
    Join([i \in 1..Len(row) |-> IF i <= 4 THEN row[i] ELSE Str(row[i])], Len(row))

writerows(rows) == [i \in 1..Len(rows) |-> writerow(rows[i])]

---------
(* The User aggregate: one User, any sequence of its operations *)

Init ==
    /\ user_id = "1001"
    /\ lang = "ko"
    /\ stats = EmptyDict
    /\ call = [op |-> "__init__"]
    /\ old = EmptyDict
    /\ ret = "None"
    /\ nrecords = 0
    /\ pc = "idle"
    /\ options = "None"
    /\ team_yaml = EmptyDict
    /\ weblate = "None"
    /\ language_teams = <<>>
    /\ users = <<>>
    /\ requests = <<>>
    /\ folded = {}
    /\ written = <<>>
    /\ output = "None"

ReadFromWeblateStats ==
    \E weblate_stats \in SeqsUpTo(WeblateStat, MaxRecords - nrecords),
       project_list \in ProjectLists, version_list \in VersionLists :
        /\ stats' = read_from_weblate_stats(stats, lang, weblate_stats,
                                            project_list, version_list)
        /\ call' = [op |-> "read_from_weblate_stats", weblate_stats |-> weblate_stats,
                    project_list |-> project_list, version_list |-> version_list]
        /\ old' = stats
        /\ ret' = "None"
        /\ nrecords' = nrecords + Len(weblate_stats)
        /\ UNCHANGED <<user_id, lang>>
        /\ UNCHANGED rvars

PopulateTotalStats ==
    /\ stats' = populate_total_stats(stats)
    /\ call' = [op |-> "populate_total_stats"]
    /\ old' = stats
    /\ ret' = "None"
    /\ UNCHANGED <<user_id, lang, nrecords>>
    /\ UNCHANGED rvars

NeedsOutput ==
    \E include_no_activities \in BOOLEAN :
        /\ ret' = needs_output(stats, include_no_activities)
        /\ call' = [op |-> "needs_output",
                    include_no_activities |-> include_no_activities]
        /\ old' = stats
        /\ UNCHANGED <<user_id, lang, stats, nrecords>>
        /\ UNCHANGED rvars

ConvertToFlattenedData ==
    \E detail \in BOOLEAN :
        LET r == convert_to_flattened_data(user_id, lang, stats, detail)
        IN  /\ stats' = r.stats
            /\ ret' = r.data
            /\ call' = [op |-> "convert_to_flattened_data", detail |-> detail]
            /\ old' = stats
            /\ UNCHANGED <<user_id, lang, nrecords>>
            /\ UNCHANGED rvars

ConvertToSerializableData ==
    \E detail \in BOOLEAN :
        LET r == convert_to_serializable_data(user_id, lang, stats, detail)
        IN  /\ stats' = r.stats
            /\ ret' = r.data
            /\ call' = [op |-> "convert_to_serializable_data", detail |-> detail]
            /\ old' = stats
            /\ UNCHANGED <<user_id, lang, nrecords>>
            /\ UNCHANGED rvars

Next ==
    \/ ReadFromWeblateStats
    \/ PopulateTotalStats
    \/ NeedsOutput
    \/ ConvertToFlattenedData
    \/ ConvertToSerializableData

Spec == Init /\ [][Next]_vars

-----------------------------------------------------------------------------
(* class LanguageTeam *)

\* A YAML scalar that is not a str
PyInt(n) == [int |-> n]

\* str(i) of a YAML scalar
StrOf(i) == IF "int" \in DOMAIN i THEN Str(i.int) ELSE i.str

LanguageTeam(language_code, team_info) ==
    LET strs(ids) == [n \in 1..Len(ids) |-> StrOf(ids[n])]
    IN  [language_code |-> language_code,
         language |-> team_info["language"],
         translators |-> strs(team_info["translators"]),
         reviewers |-> strs(Get(team_info, "reviewers", <<>>)),
         coordinators |-> strs(Get(team_info, "coordinators", <<>>))]

\* The codes that are not found are reported, and the run goes on with the
\* teams that are.
load_from_language_team_yaml_NoExit(content, lang_list) ==
    LET wanted == {n \in 1..Len(content.keys) :
                      Len(lang_list) = 0 \/ In(content.keys[n], lang_list)}
        RECURSIVE teams(_)
        teams(n) ==
            IF n = 0 THEN <<>>
            ELSE teams(n - 1)
                 \o (IF n \in wanted
                     THEN <<LanguageTeam(content.keys[n], content.vals[n])>>
                     ELSE <<>>)
    IN  [exit |-> 0, teams |-> teams(Len(content.keys))]

\* Returns the teams, or the exit status of sys.exit.
load_from_language_team_yaml(content, lang_list) ==
    LET notfound(lang_code) == ~HasKey(content, lang_code)
        lang_notfound == SelectSeq(lang_list, notfound)
        wanted == {n \in 1..Len(content.keys) :
                      Len(lang_list) = 0 \/ In(content.keys[n], lang_list)}
        RECURSIVE teams(_)
        teams(n) ==
            IF n = 0 THEN <<>>
            ELSE teams(n - 1)
                 \o (IF n \in wanted
                     THEN <<LanguageTeam(content.keys[n], content.vals[n])>>
                     ELSE <<>>)
    IN  IF Len(lang_list) > 0 /\ Len(lang_notfound) > 0
        THEN [exit |-> 1, teams |-> <<>>]
        ELSE [exit |-> 0, teams |-> teams(Len(content.keys))]

-----------------------------------------------------------------------------
(* get_weblate_stats *)

User(uid, language_code) ==
    [user_id |-> uid, lang |-> language_code, stats |-> EmptyDict]

RECURSIVE TeamUsers(_, _)
\* The Users of the first n teams, one for each translator.
TeamUsers(teams, n) ==
    IF n = 0 THEN <<>>
    ELSE TeamUsers(teams, n - 1)
         \o [k \in 1..Len(teams[n].translators) |->
                User(teams[n].translators[k], teams[n].language_code)]

\* WeblateUtility.get_projects, get_project_statistics, get_user_statistics:
\* the URI each reads, and what the API answers.
UriProjects == "api/projects/"
UriProjectStatistics(slug) == "api/projects/" \o slug \o "/statistics/"
UriUserStatistics(username) == "api/users/" \o username \o "/statistics/"

get_projects(w) == w.projects
get_user_statistics(w, username) == w.statistics[username]

\* Returns the users, the URIs read, the users folded, and the exception the
\* call raised, if any.
get_weblate_stats(w, teams, project_arg, version_list, user_list) ==
    LET users0 == TeamUsers(teams, Len(teams))
        no_projects == Len(project_arg) = 0
        project_list == IF no_projects THEN get_projects(w) ELSE project_arg
        read0 == IF no_projects THEN <<UriProjects>> ELSE <<>>
        \* project["slug"] of a str raises TypeError
        bad == {n \in 1..Len(project_list) : "slug" \notin DOMAIN project_list[n]}
        stop == IF bad = {} THEN Len(project_list) + 1
                ELSE CHOOSE n \in bad : \A m \in bad : n <= m
        read1 == read0 \o [n \in 1..(stop - 1) |->
                              UriProjectStatistics(project_list[n]["slug"])]
        selected == {n \in 1..Len(users0) :
                        ~(Len(user_list) > 0 /\ ~In(users0[n].user_id, user_list))}
        RECURSIVE user_reads(_)
        user_reads(n) ==
            IF n = 0 THEN <<>>
            ELSE user_reads(n - 1)
                 \o (IF n \in selected
                     THEN <<UriUserStatistics(users0[n].user_id)>> ELSE <<>>)
    IN  IF bad # {}
        THEN [raised |-> "TypeError", users |-> users0, requests |-> read1,
              folded |-> {}]
        ELSE [raised |-> "None",
              users |-> [n \in 1..Len(users0) |->
                            IF n \in selected
                            THEN [users0[n] EXCEPT !.stats =
                                     read_from_weblate_stats(
                                         EmptyDict, users0[n].lang,
                                         get_user_statistics(w, users0[n].user_id),
                                         project_list, version_list)]
                            ELSE users0[n]],
              requests |-> read1 \o user_reads(Len(users0)),
              folded |-> selected]

-----------------------------------------------------------------------------
(* write_stats_to_file *)

\* The order is decided by the user id alone.
User_lt_IdOnly(self, other) == StrLt(self.user_id, other.user_id)

\* User.__lt__
User_lt(self, other) ==
    IF self.lang # other.lang
    THEN StrLt(self.lang, other.lang)
    ELSE StrLt(self.user_id, other.user_id)

\* x put into the sorted s, after the elements it is not less than.
Insert(us, s, x) ==
    LET later == {j \in 1..Len(s) : User_lt(us[x], us[s[j]])}
        at == IF later = {} THEN Len(s) + 1
              ELSE CHOOSE j \in later : \A k \in later : j <= k
    IN  SubSeq(s, 1, at - 1) \o <<x>> \o SubSeq(s, at, Len(s))

RECURSIVE sorted(_, _, _)
\* sorted() of the first n of the positions idxs of the users us: stable, and
\* decided by __lt__ alone.
sorted(us, idxs, n) ==
    IF n = 0 THEN <<>> ELSE Insert(us, sorted(us, idxs, n - 1), idxs[n])

RECURSIVE FlattenedRows(_, _, _, _)
\* The rows _write_stats_to_csvfile writes for the first n users of `order`.
FlattenedRows(us, order, detail, n) ==
    IF n = 0 THEN <<>>
    ELSE FlattenedRows(us, order, detail, n - 1)
         \o writerows(convert_to_flattened_data(
                          us[order[n]].user_id, us[order[n]].lang,
                          us[order[n]].stats, detail).data)

\* Returns the users as the call leaves them, the positions of those written,
\* in order, and the file: the lines of the CSV file, or the list that is
\* handed to json.dumps.
write_stats_to_file(us, output_file, file_format, include_no_activities, detail) ==
    LET needs(n) == needs_output(us[n].stats, include_no_activities)
        kept == SelectSeq([n \in 1..Len(us) |-> n], needs)
        order == sorted(us, kept, Len(kept))
        emitted == {order[n] : n \in 1..Len(order)}
    IN  [users |-> [n \in 1..Len(us) |->
                       IF n \in emitted
                       THEN [us[n] EXCEPT !.stats = populate_total_stats(@)]
                       ELSE us[n]],
         written |-> order,
         file |-> [name |-> output_file,
                   content |->
                       IF file_format = "csv"
                       THEN <<Join(get_flattened_data_title,
                                   Len(get_flattened_data_title))>>
                            \o FlattenedRows(us, order, detail, Len(order))
                       ELSE [n \in 1..Len(order) |->
                                convert_to_serializable_data(
                                    us[order[n]].user_id, us[order[n]].lang,
                                    us[order[n]].stats, detail).data]]]

-----------------------------------------------------------------------------
(* main(): the team file is loaded, the statistics are read and folded, the  *)
(* report is written                                                         *)

\* The parsed command line.  An option left out is None, which is modelled as
\* the empty list: main and get_weblate_stats test its truth only.
Options ==
    [project : {<<>>, <<PyStr("i18n")>>},
     lang : {<<>>, <<"ko">>, <<"ja", "ko">>},
     target_version : {<<>>, <<"stable/zed">>},
     user : {<<>>, <<"1001">>},
     detail : BOOLEAN,
     include_no_activities : BOOLEAN,
     format : {"csv", "json"}]

TeamInfo(language, translators) ==
    ("language" :> language) @@ ("translators" :> translators)

TeamYamls ==
    { [keys |-> <<"ko", "ja">>,
       vals |-> << TeamInfo("Korean", <<PyStr("999"), PyInt(1001)>>),
                   TeamInfo("Japanese", <<PyStr("1001")>>) >>],
      [keys |-> <<"ko">>,
       vals |-> << TeamInfo("Korean", <<PyStr("1002"), PyInt(1001), PyStr("1001")>>)
                   @@ ("reviewers" :> <<PyInt(1001)>>) >>] }

RunUserIds == {"999", "1001", "1002"}

RunStats ==
    << [projectSlug |-> "i18n", versionSlug |-> "master", localeId |-> "ko",
        savedState |-> "Translated", wordCount |-> 100],
       [projectSlug |-> "nova", versionSlug |-> "stable-zed", localeId |-> "ko",
        savedState |-> "Approved", wordCount |-> 20],
       [projectSlug |-> "i18n", versionSlug |-> "master", localeId |-> "ja",
        savedState |-> "Translated", wordCount |-> 20] >>

\* What the remote API holds: the projects it lists, and for each user name
\* the records, of all languages, it returns.
Weblates ==
    [projects : {<<>>, <<[slug |-> "i18n"], [slug |-> "nova"]>>},
     statistics : [RunUserIds -> {<<>>, RunStats}]]

InitRun ==
    /\ pc = "load_from_language_team_yaml"
    /\ options \in Options
    /\ team_yaml \in TeamYamls
    /\ weblate \in Weblates
    /\ language_teams = <<>>
    /\ users = <<>>
    /\ requests = <<>>
    /\ folded = {}
    /\ written = <<>>
    /\ output = "None"
    /\ user_id = "None"
    /\ lang = "None"
    /\ stats = EmptyDict
    /\ call = [op |-> "None"]
    /\ old = EmptyDict
    /\ ret = "None"
    /\ nrecords = 0

\* main, lines 562-564
LoadFromLanguageTeamYaml ==
    /\ pc = "load_from_language_team_yaml"
    /\ LET r == load_from_language_team_yaml(team_yaml, options.lang)
       IN  /\ language_teams' = r.teams
           /\ pc' = IF r.exit # 0 THEN "sys.exit(1)" ELSE "get_weblate_stats"
    /\ UNCHANGED <<options, team_yaml, weblate, users, requests, folded, written,
                   output>>
    /\ UNCHANGED uvars

\* main, lines 566-576
GetWeblateStats ==
    /\ pc = "get_weblate_stats"
    /\ LET versions == [n \in 1..Len(options.target_version) |->
                           ReplaceSlash(options.target_version[n])]
           r == get_weblate_stats(weblate, language_teams, options.project,
                                  versions, options.user)
       IN  /\ users' = r.users
           /\ requests' = requests \o r.requests
           /\ folded' = r.folded
           /\ pc' = IF r.raised # "None" THEN r.raised ELSE "write_stats_to_file"
    /\ UNCHANGED <<options, team_yaml, weblate, language_teams, written, output>>
    /\ UNCHANGED uvars

\* main, lines 578-586
WriteStatsToFile ==
    /\ pc = "write_stats_to_file"
    /\ LET output_file == "weblate_stats_output." \o options.format
           r == write_stats_to_file(users, output_file, options.format,
                                    options.include_no_activities, options.detail)
       IN  /\ users' = r.users
           /\ written' = r.written
           /\ output' = r.file
           /\ pc' = "done"
    /\ UNCHANGED <<options, team_yaml, weblate, language_teams, requests, folded>>
    /\ UNCHANGED uvars

NextRun ==
    \/ LoadFromLanguageTeamYaml
    \/ GetWeblateStats
    \/ WriteStatsToFile

SpecRun == InitRun /\ [][NextRun]_vars

-----------------------------------------------------------------------------
(* What the properties below are stated with *)

\* The state names of the two counter sets: their fields other than "total".
TranslationStates == {"Translated", "NeedReview", "Approved", "Rejected"}
ReviewStates == {"Approved", "Rejected"}

\* The positions <<i, j>> of the real (project, version) buckets of a stats mapping.
RealBuckets(st) ==
    UNION {{<<i, j>> : j \in 1..Len(st.vals[i].keys)} :
           i \in {n \in 1..Len(st.keys) : st.keys[n] # TOTAL}}

\* Field f of counter set `kind` of bucket (p, v); 0 when any of them is absent.
Counter(st, p, v, kind, f) ==
    IF HasKey(st, p) /\ HasKey(DictGet(st, p), v)
    THEN Get(Get(DictGet(DictGet(st, p), v), kind, EmptyCounter), f, 0)
    ELSE 0

RECURSIVE SumOver(_, _)
SumOver(c, S) ==
    IF S = {} THEN 0
    ELSE LET k == CHOOSE x \in S : TRUE IN c[k] + SumOver(c, S \ {k})

RECURSIVE SumOfSet(_, _)
SumOfSet(f, S) ==
    IF S = {} THEN 0
    ELSE LET x == CHOOSE y \in S : TRUE IN f[x] + SumOfSet(f, S \ {x})

\* A record passes the project, version and language checks.
Passes(r, user_lang, project_list, version_list) ==
    /\ project_list = <<>> \/ \E i \in 1..Len(project_list) :
                                  project_list[i] = PyStr(r.projectSlug)
    /\ version_list = <<>> \/ \E i \in 1..Len(version_list) :
                                  version_list[i] = r.versionSlug
    /\ r.localeId = user_lang

\* What the records of a batch are to add to field f of bucket (p, v), for a
\* counter set whose state names are `states`.
Contribution(batch, user_lang, project_list, version_list, p, v, f, states) ==
    LET add == [i \in 1..Len(batch) |->
                   IF /\ Passes(batch[i], user_lang, project_list, version_list)
                      /\ batch[i].projectSlug = p
                      /\ batch[i].versionSlug = v
                      /\ batch[i].savedState \in states
                      /\ (f = "total" \/ f = batch[i].savedState)
                   THEN batch[i].wordCount ELSE 0]
    IN  SumOfSet(add, 1..Len(batch))

WasRead == call.op = "read_from_weblate_stats"
WasPopulated ==
    call.op \in {"populate_total_stats", "convert_to_flattened_data",
                 "convert_to_serializable_data"}

-----------------------------------------------------------------------------
(* C1: in every translation-stats and review-stats counter set of every     *)
(* (project, version) bucket, "total" equals the sum of the other fields,   *)
(* whatever state labels and word counts the folded records carried.        *)
C1_TotalIsSumOfOtherFields ==
    \A b \in RealBuckets(stats) :
        \A kind \in {TRANS, REVIEW} :
            LET c == stats.vals[b[1]].vals[b[2]][kind]
            IN  Get(c, "total", 0) = SumOver(c, DOMAIN c \ {"total"})

(* C2: a call of read_from_weblate_stats adds to each translation counter   *)
(* exactly the word counts of the passing records whose label is that       *)
(* translation state (to "total": of those whose label is any translation   *)
(* state), and likewise, independently, to each review counter; a record    *)
(* whose label is in neither enum changes no counter.                       *)
C2_CountedIffLabelInEnum ==
    WasRead =>
        \A p \in ProjectSlugs, v \in VersionSlugs :
            /\ \A f \in FieldSet(trans_fields) :
                   Counter(stats, p, v, TRANS, f)
                   = Counter(old, p, v, TRANS, f)
                     + Contribution(call.weblate_stats, lang, call.project_list,
                                    call.version_list, p, v, f, TranslationStates)
            /\ \A f \in FieldSet(review_fields) :
                   Counter(stats, p, v, REVIEW, f)
                   = Counter(old, p, v, REVIEW, f)
                     + Contribution(call.weblate_stats, lang, call.project_list,
                                    call.version_list, p, v, f, ReviewStates)

\* The records of the end-to-end scenario, for User ("1001", "ko").
Scenario ==
    << [projectSlug |-> "i18n", versionSlug |-> "master", localeId |-> "ko",
        savedState |-> "Translated", wordCount |-> 100],
       [projectSlug |-> "i18n", versionSlug |-> "master", localeId |-> "ko",
        savedState |-> "Approved", wordCount |-> 20] >>

\* The last operation folded exactly the scenario into a new User, unfiltered.
ScenarioFolded ==
    /\ WasRead
    /\ user_id = "1001" /\ lang = "ko"
    /\ old = EmptyDict
    /\ call.weblate_stats = Scenario
    /\ call.project_list = <<>> /\ call.version_list = <<>>

TotalOf(st, kind) == DictGet(DictGet(st, TOTAL), kind)

(* C3, as the spec states it: after the scenario the total bucket is        *)
(* translation-stats {Translated:100, total:100, NeedReview:0, Approved:0,  *)
(* Rejected:0}, review-stats {Approved:20, total:20, Rejected:0}, and the   *)
(* detail=false CSV output is the single row                                *)
(* 1001,ko,-,-,100,100,0,0,0,20,20,0.                                       *)
C3_ScenarioAsStated ==
    [][ScenarioFolded =>
          /\ call'.op = "populate_total_stats" =>
                 /\ TotalOf(stats', TRANS)
                    = [total |-> 100, Translated |-> 100, NeedReview |-> 0,
                       Approved |-> 0, Rejected |-> 0]
                 /\ TotalOf(stats', REVIEW)
                    = [total |-> 20, Approved |-> 20, Rejected |-> 0]
          /\ (call'.op = "convert_to_flattened_data" /\ ~call'.detail) =>
                 writerows(ret') = <<"1001,ko,-,-,100,100,0,0,0,20,20,0">>]_vars

(* C3, amended: after the scenario the total bucket is translation-stats    *)
(* {Translated:100, total:120, NeedReview:0, Approved:20, Rejected:0},      *)
(* review-stats {Approved:20, total:20, Rejected:0}, and the detail=false   *)
(* CSV output is the single row 1001,ko,-,-,120,100,0,20,0,20,20,0.         *)
C3_ScenarioAmended ==
    [][ScenarioFolded =>
          /\ call'.op = "populate_total_stats" =>
                 /\ TotalOf(stats', TRANS)
                    = [total |-> 120, Translated |-> 100, NeedReview |-> 0,
                       Approved |-> 20, Rejected |-> 0]
                 /\ TotalOf(stats', REVIEW)
                    = [total |-> 20, Approved |-> 20, Rejected |-> 0]
          /\ (call'.op = "convert_to_flattened_data" /\ ~call'.detail) =>
                 writerows(ret') = <<"1001,ko,-,-,120,100,0,20,0,20,20,0">>]_vars

\* The row has been returned for a User that held exactly the folded scenario.
C3_Witness ==
    /\ call.op = "convert_to_flattened_data" /\ ~call.detail
    /\ user_id = "1001" /\ lang = "ko"
    /\ old = [keys |-> <<"i18n">>,
              vals |-> << [keys |-> <<"master">>,
                           vals |-> << (TRANS :> [Translated |-> 100, total |-> 120,
                                                  Approved |-> 20])
                                       @@ (REVIEW :> [Approved |-> 20,
                                                      total |-> 20]) >>] >>]
    /\ Len(ret) = 1

(* C4: after populate_total_stats each field of the "__total__" bucket is   *)
(* the sum of that field over every real (project, version) bucket, an      *)
(* absent field counting 0; with no bucket every field is 0.                *)
C4_TotalBucketSumsRealBuckets ==
    WasPopulated =>
        \A kind \in {TRANS, REVIEW} :
            LET fields == IF kind = TRANS THEN trans_fields ELSE review_fields
                total == TotalOf(stats, kind)
                real == RealBuckets(stats)
            IN  /\ DOMAIN total = FieldSet(fields)
                /\ \A f \in FieldSet(fields) :
                       total[f]
                       = SumOfSet([b \in real |->
                                      Get(Get(stats.vals[b[1]].vals[b[2]], kind,
                                              EmptyCounter), f, 0)], real)

\* Totals have been computed over two buckets, after an earlier total.
C4_Witness ==
    /\ WasPopulated
    /\ Cardinality(RealBuckets(stats)) = 2
    /\ HasKey(old, TOTAL)
    /\ TotalOf(stats, TRANS)["total"] > 0
    /\ TotalOf(stats, REVIEW)["total"] > 0

(* C5: populate_total_stats called again, with no fold since the stats were *)
(* last populated, leaves every bucket, "__total__" included, as it was.    *)
C5_PopulateIdempotent ==
    [][(WasPopulated /\ call'.op = "populate_total_stats") => stats' = stats]_vars

\* A repeated call over a mapping that already held "__total__" and a bucket.
C5_Witness ==
    /\ call.op = "populate_total_stats"
    /\ HasKey(old, TOTAL)
    /\ old = stats
    /\ RealBuckets(stats) # {}
    /\ TotalOf(stats, TRANS)["total"] > 0

(* C6: needs_output(true) is true; needs_output(false) is true exactly when *)
(* the user has at least one (project, version) bucket recorded, so it is   *)
(* false for a User into which no record has been folded.                   *)
C6_NeedsOutputOnlyWithBucket ==
    call.op = "needs_output" =>
        IF call.include_no_activities THEN ret = TRUE
        ELSE ret = (RealBuckets(stats) # {})

(* C7: a record skipped by the project filter, the version filter or the    *)
(* language check leaves the stats mapping as it was, with no bucket        *)
(* created; an empty filter skips nothing.                                  *)
C7_SkippedRecordsChangeNothing ==
    WasRead =>
        LET batch == call.weblate_stats
            passes(r) == Passes(r, lang, call.project_list, call.version_list)
        IN  /\ (\A i \in 1..Len(batch) : ~passes(batch[i])) => stats = old
            /\ stats = read_from_weblate_stats(old, lang, SelectSeq(batch, passes),
                                               call.project_list, call.version_list)
            /\ \A i \in 1..Len(batch) :
                   passes(batch[i]) =>
                       /\ HasKey(stats, batch[i].projectSlug)
                       /\ HasKey(DictGet(stats, batch[i].projectSlug),
                                 batch[i].versionSlug)

\* A record was skipped for its version alone, by a User that held a bucket.
C7_Witness ==
    /\ WasRead
    /\ RealBuckets(old) # {}
    /\ stats = old
    /\ \E i \in 1..Len(call.weblate_stats) :
           LET r == call.weblate_stats[i]
           IN  /\ Passes(r, lang, call.project_list, <<>>)
               /\ ~Passes(r, lang, call.project_list, call.version_list)

(* C10: convert_to_flattened_data returns, with detail, one row for each    *)
(* real bucket (its counters in the column order, absent fields 0) and then *)
(* the grand-total row; without detail the grand-total row alone; that row  *)
(* is last, with "-" for project and version; no row is for "__total__".    *)
C10_FlattenedRows ==
    call.op = "convert_to_flattened_data" =>
        LET real == RealBuckets(stats)
            n == IF call.detail THEN Cardinality(real) ELSE 0
            last == ret[Len(ret)]
            bucket_row(p, v) ==
                <<user_id, lang, p, v,
                  Counter(stats, p, v, TRANS, "total"),
                  Counter(stats, p, v, TRANS, "Translated"),
                  Counter(stats, p, v, TRANS, "NeedReview"),
                  Counter(stats, p, v, TRANS, "Approved"),
                  Counter(stats, p, v, TRANS, "Rejected"),
                  Counter(stats, p, v, REVIEW, "total"),
                  Counter(stats, p, v, REVIEW, "Approved"),
                  Counter(stats, p, v, REVIEW, "Rejected")>>
        IN  /\ Len(ret) = n + 1
            /\ last = <<user_id, lang, "-", "-",
                        TotalOf(stats, TRANS)["total"],
                        TotalOf(stats, TRANS)["Translated"],
                        TotalOf(stats, TRANS)["NeedReview"],
                        TotalOf(stats, TRANS)["Approved"],
                        TotalOf(stats, TRANS)["Rejected"],
                        TotalOf(stats, REVIEW)["total"],
                        TotalOf(stats, REVIEW)["Approved"],
                        TotalOf(stats, REVIEW)["Rejected"]>>
            /\ \A i \in 1..n : ret[i][3] # TOTAL /\ ret[i][3] # "-"
            /\ call.detail =>
                   \A b \in real :
                       LET p == stats.keys[b[1]]
                           v == stats.vals[b[1]].keys[b[2]]
                       IN  Cardinality({i \in 1..n : ret[i] = bucket_row(p, v)}) = 1

\* Rows returned with detail for two buckets, "__total__" already in the mapping.
C10_Witness ==
    /\ call.op = "convert_to_flattened_data"
    /\ call.detail
    /\ HasKey(old, TOTAL)
    /\ Cardinality(RealBuckets(stats)) = 2
    /\ Len(ret) = 3

-----------------------------------------------------------------------------
(* The run of main() *)

\* The user at position n of users is not left out by --user.
Selected(n) == options.user = <<>> \/ In(users[n].user_id, options.user)

\* The projects whose records the run is to accumulate, as a list of slugs:
\* those of --project, or every project of the remote API.
WantedProjects ==
    IF options.project # <<>> THEN options.project
    ELSE [n \in 1..Len(weblate.projects) |-> PyStr(weblate.projects[n].slug)]

WantedVersions ==
    [n \in 1..Len(options.target_version) |-> ReplaceSlash(options.target_version[n])]

(* C8: a run of get_weblate_stats reaches the fold of every selected user,  *)
(* and accumulates into each the records of the projects given with         *)
(* --project or, when none is given, of all projects of the remote API.     *)
C8_ProjectsSelectRecords ==
    /\ pc # "TypeError"
    /\ pc = "write_stats_to_file" =>
           \A n \in 1..Len(users) :
               Selected(n) =>
                   /\ n \in folded
                   /\ \A p \in ProjectSlugs, v \in VersionSlugs :
                          /\ \A f \in FieldSet(trans_fields) :
                                 Counter(users[n].stats, p, v, TRANS, f)
                                 = Contribution(weblate.statistics[users[n].user_id],
                                                users[n].lang, WantedProjects,
                                                WantedVersions, p, v, f,
                                                TranslationStates)
                          /\ \A f \in FieldSet(review_fields) :
                                 Counter(users[n].stats, p, v, REVIEW, f)
                                 = Contribution(weblate.statistics[users[n].user_id],
                                                users[n].lang, WantedProjects,
                                                WantedVersions, p, v, f,
                                                ReviewStates)

(* C9: write_stats_to_file writes exactly the users for which               *)
(* needs_output(include_no_activities) holds when it is called, each once,  *)
(* in ascending order of language code and, for one language code, of user  *)
(* id, both compared as strings, whatever the order of the users it gets.   *)
C9_WrittenUsersFilteredAndSorted ==
    [][(pc = "write_stats_to_file" /\ pc' = "done") =>
          LET due == {n \in 1..Len(users) :
                         needs_output(users[n].stats, options.include_no_activities)}
              w == written'
          IN  /\ {w[k] : k \in 1..Len(w)} = due
              /\ Len(w) = Cardinality(due)
              /\ \A j, k \in 1..Len(w) :
                     j < k =>
                         LET a == users[w[j]]
                             b == users[w[k]]
                         IN  \/ StrLt(a.lang, b.lang)
                             \/ /\ a.lang = b.lang
                                /\ (a.user_id = b.user_id
                                    \/ StrLt(a.user_id, b.user_id))
              /\ options.format = "json" =>
                     /\ Len(output'.content) = Len(w)
                     /\ \A k \in 1..Len(w) :
                            /\ output'.content[k].user_id = users[w[k]].user_id
                            /\ output'.content[k].lang = users[w[k]].lang
              /\ (options.format = "csv" /\ ~options.detail) =>
                     /\ Len(output'.content) = Len(w) + 1
                     /\ \A k \in 1..Len(w) :
                            LET start == users[w[k]].user_id \o ","
                                         \o users[w[k]].lang \o ",-,-,"
                            IN  SubSeq(output'.content[k + 1], 1, Len(start))
                                = start]_vars

\* Some users, not all, have been written, in another order than they came.
C9_Witness ==
    /\ pc = "done"
    /\ ~options.include_no_activities
    /\ Len(written) >= 2
    /\ Len(written) < Len(users)
    /\ \E j, k \in 1..Len(written) : j < k /\ written[j] > written[k]

(* C11: when --lang names a code that the team file does not hold, the run  *)
(* ends in sys.exit(1) with no remote request issued and no output file     *)
(* written, and goes no further; otherwise load_from_language_team_yaml     *)
(* returns one LanguageTeam for each code of the filter, or for each code   *)
(* of the file when the filter is empty, and no other.                      *)
C11_AbsentLanguageExitsBeforeRequests ==
    LET named == {options.lang[i] : i \in 1..Len(options.lang)}
        in_file == {team_yaml.keys[n] : n \in 1..Len(team_yaml.keys)}
        expected == IF named = {} THEN in_file ELSE named
        loaded == pc # "load_from_language_team_yaml"
    IN  /\ (named \ in_file # {}) =>
               /\ loaded => pc = "sys.exit(1)"
               /\ requests = <<>>
               /\ written = <<>>
               /\ output = "None"
        /\ pc = "sys.exit(1)" => ~ENABLED NextRun
        /\ (named \subseteq in_file /\ loaded) =>
               /\ pc # "sys.exit(1)"
               /\ {language_teams[n].language_code : n \in 1..Len(language_teams)}
                  = expected
               /\ Len(language_teams) = Cardinality(expected)
               /\ \A n \in 1..Len(language_teams) :
                      language_teams[n]
                      = LanguageTeam(language_teams[n].language_code,
                                     DictGet(team_yaml,
                                             language_teams[n].language_code))

\* The run has ended at sys.exit(1): --lang names "ja" and "ko", and the team
\* file holds "ko" alone.
C11_Witness ==
    /\ pc = "sys.exit(1)"
    /\ In("ko", options.lang)
    /\ HasKey(team_yaml, "ko")
    /\ \E i \in 1..Len(options.lang) : ~HasKey(team_yaml, options.lang[i])

\* The records a pass of the project check alone, with the list P, lets through.
ProjectPass(weblate_stats, P) ==
    LET survives(r) == ~Skip(r.localeId, r, P, <<>>)
    IN  SelectSeq(weblate_stats, survives)

\* The records a pass of the version check alone, with the list V, lets through.
VersionPass(weblate_stats, V) ==
    LET survives(r) == ~Skip(r.localeId, r, <<>>, V)
    IN  SelectSeq(weblate_stats, survives)

(* C12: one read_from_weblate_stats call of a fresh User with the project   *)
(* filter P and the version filter V leaves the stats mapping that folding, *)
(* with no filter, the records that survive a project-only pass with P and  *)
(* then a version-only pass with V leaves, and the same with the two passes *)
(* in the other order.                                                      *)
C12_FilterPassesCommute ==
    (WasRead /\ old = EmptyDict) =>
        LET batch == call.weblate_stats
            P == call.project_list
            V == call.version_list
            fold(records) ==
                read_from_weblate_stats(EmptyDict, lang, records, <<>>, <<>>)
        IN  /\ stats = fold(VersionPass(ProjectPass(batch, P), V))
            /\ stats = fold(ProjectPass(VersionPass(batch, V), P))
            /\ VersionPass(ProjectPass(batch, P), V)
               = ProjectPass(VersionPass(batch, V), P)

\* A fresh User read two records with both filters set: one passes both, the
\* other passes the project filter and fails the version filter.
C12_Witness ==
    /\ WasRead
    /\ old = EmptyDict
    /\ call.project_list # <<>>
    /\ call.version_list # <<>>
    /\ RealBuckets(stats) # {}
    /\ \E i, j \in 1..Len(call.weblate_stats) :
           LET a == call.weblate_stats[i]
               b == call.weblate_stats[j]
           IN  /\ Passes(a, lang, call.project_list, call.version_list)
               /\ Passes(b, lang, call.project_list, <<>>)
               /\ ~Passes(b, lang, <<>>, call.version_list)

====
